---- MODULE Spec2Model ----
(***************************************************************************)
(* A model of SalesforceClient (src/src/client.ts): the token cache, the   *)
(* authenticate() exchange, the request() retry/backoff recursion and the  *)
(* query() pagination loop.                                                *)
(*                                                                         *)
(* JavaScript runs each continuation to completion: an action of the model *)
(* is the code that runs between two awaits (a call until its first await, *)
(* or the continuation of an await until the next one).  The token         *)
(* endpoint and the resource endpoint are the environment: their answers   *)
(* are the inputs of the continuations.                                    *)
(***************************************************************************)
EXTENDS Integers, Sequences, FiniteSets, TLC

\* ---------------------------------------------------------------- bounds
\* Largest value of the maxRetries option that Init draws.
MaxRetriesBound == 3
\* The tokenCacheTtlMs option of the client under study, in clock ticks: short
\* enough for a cached token to expire during a backoff wait.
TtlTicks == 2
\* The clock of the model stops after this many ticks: time beyond this
\* horizon is not resolved, and a timer due later fires once the clock has
\* stopped.
MaxTicks == 4
\* Number of operations a caller starts on the client.
MaxOps == 2
\* Largest number of pages the server splits a result set into, and largest
\* number of records of a page.
MaxPages == 3
MaxPageLen == 2
\* Largest value of the maxRetries option of a client that runs a query.
QueryRetriesBound == 2
\* Largest value of the maxRetries option of a client with concurrent callers.
ConcRetriesBound == 1

\* The base delay of the backoff, in ms (the literal of client.ts lines 160,
\* 167 and 195); the clock of the model advances in steps of this size.
BackoffBaseMs == 1000

Horizon == MaxTicks * BackoffBaseMs

\* The slots of operations on the client.  A caller with a single logical
\* thread of control (spec.md section 5) awaits each operation before it
\* starts the next one, so it only ever uses the first slot.
Ops == {1, 2}
Single == {1}

NoToken == [accessToken |-> 0, instanceUrl |-> 0, expiresAt |-> -1]

\* HTTP statuses the resource endpoint answers with.
Statuses == {200, 204, 400, 401, 429, 500, 503}
\* What a slot records as the status of an attempt whose fetch was aborted.
TimedOut == 0
\* Answers of the token endpoint: a success with a well-formed body, a
\* success whose body does not match the schema, a non-success status.
TokenAnswers == {"ok", "malformed", "http_error"}

VARIABLES
    now,              \* Date.now(), in ms
    maxRetries,       \* this.maxRetries
    tokenCacheTtlMs,  \* this.tokenCacheTtlMs
    tokenCache,       \* this.tokenCache (NoToken models null)
    tokenCalls,       \* number of calls made to the token endpoint
    started,          \* number of operations started so far
    op,               \* per slot: the running request() frame
    obs,              \* per slot: what has been observed of the operation
    q,                \* the running query() call (it uses the first slot)
    served,           \* the pages the server has answered the query with
    cr                \* the running createRecord() call (it uses the first slot)

vars == <<now, maxRetries, tokenCacheTtlMs, tokenCache, tokenCalls, started,
          op, obs, q, served, cr>>

\* ------------------------------------------------------- pure helpers

NoTok == [accessToken |-> 0, instanceUrl |-> 0]

\* --- URLs.  A path is a sequence of segments; the cursor stands for the
\* opaque locator of a page (0: the query itself).

\* DEFAULT_API_VERSION (config.ts).
ApiVersion == "v61.0"
\* `/services/data/${this.config.apiVersion}` (lines 132 and 224).
ApiPrefix == <<"services", "data", ApiVersion>>

NoUrl == [path |-> << >>, cursor |-> 0]
\* `/limits/` (line 380) and `/query/?q=${encodedQuery}` (line 214).
LimitsEndpoint == [path |-> <<"limits">>, cursor |-> 0]
QueryEndpoint == [path |-> <<"query">>, cursor |-> 0]
\* `/sobjects/${sobject}/` (line 260).
CreateEndpoint == [path |-> <<"sobjects">>, cursor |-> 0]

\* The RequestInit of a call of request(): the default `{}` of line 128 (a
\* fetch with no method is a GET with no body) and the one createRecord builds
\* (lines 261-264); body 0 stands for no body.
NoOptions == [method |-> "GET", body |-> 0]
CreateOptions(data) == [method |-> "POST", body |-> data]
\* No resource call has been put on the wire.
NoWire == [path |-> << >>, cursor |-> 0, method |-> "none", body |-> 0]

\* Line 132: the full URL of a resource call.
BuildUrl(instanceUrl, endpoint) ==
    [base |-> instanceUrl, path |-> ApiPrefix \o endpoint.path, cursor |-> endpoint.cursor]

\* String.prototype.replace(pattern, '') on a path: the first occurrence of
\* pat is removed, if there is one.
RemoveFirst(s, pat) ==
    LET n == Len(pat)
        at == {i \in 1..(Len(s) - n + 1) : SubSeq(s, i, i + n - 1) = pat} IN
    IF at = {} THEN s
    ELSE LET i == CHOOSE j \in at : \A k \in at : j <= k IN
         SubSeq(s, 1, i - 1) \o SubSeq(s, i + n, Len(s))

\* Line 224: the continuation reference without the prefix that request()
\* adds again.
StripApiPrefix(u) == [path |-> RemoveFirst(u.path, ApiPrefix), cursor |-> u.cursor]

\* --- The resource server.

NoBody == [kind |-> "none"]
\* The body of a 204 as request() returns it (line 186).
EmptyBody == [kind |-> "empty"]

\* The continuation reference the server gives for the page after cursor c:
\* a relative URL under the API prefix.
NextRecordsUrl(c) == [path |-> ApiPrefix \o <<"query">>, cursor |-> c]

\* The j-th record of the k-th page: ids repeat within and across pages and
\* are not sorted.
RecordAt(k, j) == (k + 2 * j) % 3

\* The data a caller passes to createRecord.
CreateData == {1, 2}

\* The objects the server answers a create with: the documented response,
\* one with a field the schema does not know, one without the errors field.
CreateResponses ==
    {[id |-> "001x", success |-> TRUE, errors |-> << >>],
     [id |-> "001x", success |-> FALSE, errors |-> <<"e">>, warnings |-> << >>],
     [id |-> "001x", success |-> TRUE]}

\* The bodies the server may answer a resource call with when the status is
\* a success with content.
Bodies(url) ==
    IF url.path = ApiPrefix \o <<"query">>
    THEN {[kind |-> "page",
           records |-> [j \in 1..n |-> RecordAt(url.cursor + 1, j)],
           done |-> d,
           nextRecordsUrl |-> IF more THEN NextRecordsUrl(url.cursor + 1) ELSE NoUrl] :
             n \in 0..MaxPageLen, d \in BOOLEAN,
             more \in IF url.cursor + 1 < MaxPages THEN BOOLEAN ELSE {FALSE}}
    ELSE IF url.path = ApiPrefix \o <<"limits">>
    THEN {[kind |-> "json"]}
    ELSE IF url.path = ApiPrefix \o <<"sobjects">>
    THEN {[kind |-> "object", value |-> v] : v \in CreateResponses}
    ELSE {[kind |-> "unknown"]}

\* --- Error bodies.  A text is one of the bodies below; JsonParse gives what
\* JSON.parse (line 176) makes of it: it throws (ok = FALSE) or gives a value
\* that is an array of objects or something else.
Str(x) == [type |-> "string", s |-> x]
Num(x) == [type |-> "number", n |-> x]

ErrorTexts == 1..6

JsonParse(text) ==
    CASE text = 1 ->  \* [{"message":"m1","errorCode":"E1"}]
           [ok |-> TRUE, isArray |-> TRUE,
            items |-> <<[message |-> Str("m1"), errorCode |-> Str("E1")]>>]
      [] text = 2 ->  \* two errors, the second with a field list
           [ok |-> TRUE, isArray |-> TRUE,
            items |-> <<[message |-> Str("m1"), errorCode |-> Str("E1")],
                        [message |-> Str("m2"), errorCode |-> Str("E2"),
                         fields |-> <<Str("f")>>]>>]
      [] text = 3 ->  \* {"error":"x"}: JSON, not a list
           [ok |-> TRUE, isArray |-> FALSE, items |-> << >>]
      [] text = 4 ->  \* [{"message":"m4"}]: a list whose entry lacks errorCode
           [ok |-> TRUE, isArray |-> TRUE, items |-> <<[message |-> Str("m4")]>>]
      [] text = 5 ->  \* [{"message":7,"errorCode":"E1"}]: message is not a string
           [ok |-> TRUE, isArray |-> TRUE,
            items |-> <<[message |-> Num(7), errorCode |-> Str("E1")]>>]
      [] OTHER ->     \* <html>...: not JSON
           [ok |-> FALSE, isArray |-> FALSE, items |-> << >>]

\* SalesforceErrorSchema (types.ts lines 31-35) accepts the parsed value.
MatchesErrorSchema(j) ==
    /\ j.isArray
    /\ \A i \in 1..Len(j.items) :
          /\ {"message", "errorCode"} \subseteq DOMAIN j.items[i]
          /\ j.items[i].message.type = "string"
          /\ j.items[i].errorCode.type = "string"
          /\ "fields" \in DOMAIN j.items[i]
             => \A k \in 1..Len(j.items[i].fields) : j.items[i].fields[k].type = "string"

\* No message (the operation has not failed on the non-2xx path).
NoMsg == [status |-> 0, text |-> 0, messages |-> << >>]

\* Lines 174-180: the message of the error, from the parsed list
\* (`Salesforce API Error: m1, m2`) or, when JSON.parse or the schema throws,
\* from the status and the raw text (`Salesforce API Error (400): <text>`).
ErrorMessage(st, text) ==
    LET j == JsonParse(text) IN
    IF j.ok /\ MatchesErrorSchema(j)
    THEN [status |-> 0, text |-> 0,
          messages |-> [i \in 1..Len(j.items) |-> j.items[i].message.s]]
    ELSE [status |-> st, text |-> text, messages |-> << >>]

\* The frame of a slot on which no operation has run yet.
IdleFrame ==
    [pc |-> "idle", retries |-> 0, tok |-> NoTok,
     pending |-> 0,        \* the token-endpoint call this attempt made (0: none)
     endpoint |-> NoUrl, options |-> NoOptions, wakeAt |-> 0,
     err |-> "none", site |-> 0, msg |-> NoMsg, result |-> NoBody]

\* The last finished attempt was not answered 401.
No401 == "none"

\* What the slot holds as the handler of a 401 runs, against the token `tok`
\* of the rejected call: nothing, that token, or a token of an earlier or a
\* later token response.
SlotAt401(cache, tok) ==
    IF cache = NoToken THEN "empty"
    ELSE IF cache.accessToken = tok.accessToken THEN "rejected"
    ELSE IF cache.accessToken < tok.accessToken THEN "older"
    ELSE "newer"

\* What is observed of one logical operation, from its start.
NoObs ==
    [calls |-> 0,          \* resource calls issued
     attempts |-> 0,       \* attempts started (calls of request())
     waits |-> << >>,      \* backoff delays waited, in order
     seen |-> "none",      \* the cache slot as the current attempt's
                           \* authenticate() read it: empty, expired, valid
     lastAuth |-> "none",  \* the token endpoint's last answer to the operation
     last |-> -1,          \* status of the last finished attempt (-1: none)
     sent |-> NoWire,      \* the last resource call put on the wire
     on401 |-> No401,      \* when the last finished attempt was answered
                           \* 401: what the slot held as the handler ran
     only429 |-> TRUE]     \* every finished attempt so far answered 429

\* Faults of the cache check of line 77: the comparison inverted, the expiry
\* instant taken as still valid, the expiry not looked at.
CacheHitInverted(cache, t) == cache # NoToken /\ t > cache.expiresAt
CacheHitAtExpiry(cache, t) == cache # NoToken /\ t <= cache.expiresAt
CacheHitNoExpiry(cache, t) == cache # NoToken

\* A fault of line 77: an empty slot is not told from a token.
CacheHitOnEmpty(cache, t) == cache = NoToken \/ t < cache.expiresAt

\* client.ts line 77: the cache holds a token and it has not expired.
CacheHit(cache, t) == cache # NoToken /\ t < cache.expiresAt

\* A fault of the cache write: the fields are assigned one by one and the
\* base URL of a token already in the slot is kept.
MergedToken(n, exp) ==
    [accessToken |-> n,
     instanceUrl |-> IF tokenCache = NoToken THEN n ELSE tokenCache.instanceUrl,
     expiresAt |-> exp]

\* Lines 105-109: the value the slot is given, from the token response n
\* (its access_token and instance_url) and the expiry instant.
StoredToken(n, exp) == [accessToken |-> n, instanceUrl |-> n, expiresAt |-> exp]

\* Lines 111-114: what authenticate() returns after the exchange.
ReturnedToken(n) == [accessToken |-> n, instanceUrl |-> n]

\* A fault of the delay: the same wait before every retry.
FlatDelay(r) == BackoffBaseMs

\* A fault of the delay: linear in the attempt instead of exponential.
LinearDelay(r) == (maxRetries - r + 1) * BackoffBaseMs

\* client.ts lines 160, 167, 195.
BackoffDelay(r) == 2 ^ (maxRetries - r) * BackoffBaseMs

\* Line 159 and line 166: the statuses that are retried after a backoff.
IsRateLimited(st) == st = 429
\* A fault of line 166: every status from 400 on is taken as a server error.
IsClientOrServerError(st) == st >= 400
IsServerError(st) == st >= 500

\* A fault of the countdown: the first retry is given the full budget again.
FirstRetryFree(r) == IF r = maxRetries THEN r ELSE r - 1

\* The budget a retry is given (lines 153, 162, 169, 197).
NextBudget(r) == r - 1

\* A fault of the invalidation: the token in the slot is marked as expired
\* instead of being removed.
ExpiredCache == [tokenCache EXCEPT !.expiresAt = 0]

\* A fault of the invalidation: the slot keeps its value.
KeptCache == tokenCache

\* The slot after clearTokenCache() (line 121).
ClearedCache == NoToken

\* A fault of the 401 handler: the slot is emptied only when it still holds
\* the token that was rejected.
CacheAfter401IfSame(cache, tok) ==
    IF cache # NoToken /\ cache.accessToken = tok.accessToken THEN ClearedCache ELSE cache

\* Lines 150-151: the slot after the handler of a 401, whatever it held and
\* whatever token `tok` the rejected call carried.
CacheAfter401(cache, tok) == ClearedCache

\* Response.ok: a 2xx status.
ResponseOk(st) == st >= 200 /\ st <= 299

InFlight(o) == op[o].pc \in {"auth", "ready", "fetch", "backoff"}

\* A call of request(endpoint, options, r) up to its first await: it runs
\* authenticate() (lines 75-96) until that returns (cache hit) or awaits the
\* token endpoint.  `cache` is the slot as this call reads it.
NewAttempt(frame, ob, r, cache) ==
    LET hit == CacheHit(cache, now) IN
    [op |-> [frame EXCEPT
                !.pc = IF hit THEN "ready" ELSE "auth",
                !.retries = r,
                !.wakeAt = 0,
                !.tok = IF hit
                        THEN [accessToken |-> cache.accessToken,
                              instanceUrl |-> cache.instanceUrl]
                        ELSE NoTok,
                !.pending = IF hit THEN 0 ELSE tokenCalls + 1],
     obs |-> [ob EXCEPT
                !.attempts = @ + 1,
                !.seen = IF cache = NoToken THEN "empty"
                         ELSE IF now >= cache.expiresAt THEN "expired"
                         ELSE "valid"],
     tokenCalls |-> IF hit THEN tokenCalls ELSE tokenCalls + 1]

\* The operation throws at source line `site`; the locals of the frame are
\* gone.
Fail(frame, cls, site) ==
    [frame EXCEPT !.pc = "failed", !.err = cls, !.site = site,
                  !.tok = NoTok, !.pending = 0, !.wakeAt = 0]

\* The operation returns `body` (lines 186, 189).
Return(frame, body) ==
    [frame EXCEPT !.pc = "done", !.result = body,
                  !.tok = NoTok, !.pending = 0, !.wakeAt = 0]

\* A fault of lines 175-180: what JSON.parse or the schema throws is not
\* caught and ends the operation.
OnErrorBodyUncaught(frame, st, text) ==
    IF JsonParse(text).ok /\ MatchesErrorSchema(JsonParse(text))
    THEN [Fail(frame, "ApiError", 181) EXCEPT !.msg = ErrorMessage(st, text)]
    ELSE Fail(frame, IF JsonParse(text).ok THEN "ZodError" ELSE "SyntaxError", 176)

\* Lines 172-182: a non-2xx status that is not retried throws the error with
\* the message built from the body.
OnErrorBody(frame, st, text) ==
    [Fail(frame, "ApiError", 181) EXCEPT !.msg = ErrorMessage(st, text)]

\* A fault of the retry: the body is sent with the first attempt only.
WireRequestBodyOnce(frame) ==
    [path |-> ApiPrefix \o frame.endpoint.path, cursor |-> frame.endpoint.cursor,
     method |-> frame.options.method,
     body |-> IF frame.retries = maxRetries THEN frame.options.body ELSE 0]

\* Lines 132 and 138-146: the resource call as it is put on the wire, without
\* the base URL and the Authorization header (they come from the token).
WireRequest(frame) ==
    [path |-> ApiPrefix \o frame.endpoint.path, cursor |-> frame.endpoint.cursor,
     method |-> frame.options.method, body |-> frame.options.body]

\* Lines 160-161, 167-168, 195-196: compute the delay and start the timer.
StartBackoff(frame) ==
    [frame EXCEPT !.pc = "backoff", !.wakeAt = now + BackoffDelay(frame.retries)]

\* A fault of the exchange: its failure is handled as a transient failure of
\* the attempt.
RetryTokenError(frame) ==
    IF frame.retries > 0 THEN StartBackoff(frame)
    ELSE Fail(frame, "AuthenticationError", 100)

\* Lines 98-101: the token endpoint answered with a non-success status.
OnTokenError(frame) == Fail(frame, "AuthenticationError", 100)

\* An attempt has ended with status `what`.
Finished(ob, what) ==
    [ob EXCEPT !.last = what, !.only429 = @ /\ what = 429, !.on401 = No401]

\* No query() call has been made.  Besides the locals of query() the record
\* counts the calls of request() the query has made (requests) and the
\* resource calls issued for it (calls).
NoQuery ==
    [pc |-> "none", fetchAll |-> FALSE, records |-> << >>, nextUrl |-> NoUrl,
     requests |-> 0, calls |-> 0, err |-> "none"]

\* No createRecord() call has been made.
NoCreate == [pc |-> "none", data |-> 0, result |-> [id |-> "none"], err |-> "none"]

\* ------------------------------------------------------------- Init

TypeOK ==
    /\ now \in Nat
    /\ maxRetries \in 0..MaxRetriesBound
    /\ tokenCalls \in Nat
    /\ started \in 0..MaxOps
    /\ \A o \in Ops : op[o].pc \in {"idle", "auth", "ready", "fetch", "backoff", "done", "failed"}

Init ==
    /\ now = 0
    /\ maxRetries \in 0..MaxRetriesBound
    /\ tokenCacheTtlMs = TtlTicks * BackoffBaseMs
    /\ tokenCache = NoToken
    /\ tokenCalls = 0
    /\ started = 0
    /\ op = [o \in Ops |-> IdleFrame]
    /\ obs = [o \in Ops |-> NoObs]
    /\ q = NoQuery
    /\ served = << >>
    /\ cr = NoCreate

\* ---------------------------------------------------------- actions

\* request(endpoint, options) is called on slot o with the default budget
\* (line 129).
CallRequestWith(o, endpoint, options) ==
    LET a == NewAttempt([IdleFrame EXCEPT !.endpoint = endpoint, !.options = options],
                        NoObs, maxRetries, tokenCache) IN
    /\ op' = [op EXCEPT ![o] = a.op]
    /\ obs' = [obs EXCEPT ![o] = a.obs]
    /\ tokenCalls' = a.tokenCalls

\* A fault of line 129 across the calls of one caller: a call that follows a
\* returned call on the slot is given the budget that call had left.
CallRequestLeftover(o, endpoint) ==
    LET r == IF op[o].pc = "done" THEN op[o].retries ELSE maxRetries
        a == NewAttempt([IdleFrame EXCEPT !.endpoint = endpoint, !.options = NoOptions],
                        NoObs, r, tokenCache) IN
    /\ op' = [op EXCEPT ![o] = a.op]
    /\ obs' = [obs EXCEPT ![o] = a.obs]
    /\ tokenCalls' = a.tokenCalls

\* request(endpoint) is called on slot o: the options default to {} (line 128).
CallRequest(o, endpoint) == CallRequestWith(o, endpoint, NoOptions)

\* A caller invokes an operation that is a single request() call (getLimits,
\* line 380).
Start(o) ==
    /\ ~InFlight(o)
    /\ q.pc = "none"
    /\ started < MaxOps
    /\ started' = started + 1
    /\ CallRequest(o, LimitsEndpoint)
    /\ UNCHANGED <<now, maxRetries, tokenCacheTtlMs, tokenCache, q, served, cr>>

\* The token endpoint answers the fetch of line 92; lines 98-114 run.
TokenRespond(o, ans) ==
    /\ op[o].pc = "auth"
    /\ CASE ans = "ok" ->
              LET n == op[o].pending
                  exp == now + tokenCacheTtlMs IN
              /\ tokenCache' = StoredToken(n, exp)
              /\ op' = [op EXCEPT ![o] = [@ EXCEPT !.pc = "ready", !.tok = ReturnedToken(n)]]
         [] ans = "http_error" ->
              /\ op' = [op EXCEPT ![o] = OnTokenError(@)]
              /\ UNCHANGED tokenCache
         [] ans = "malformed" ->
              /\ op' = [op EXCEPT ![o] = Fail(@, "ValidationError", 103)]
              /\ UNCHANGED tokenCache
    /\ obs' = [obs EXCEPT ![o] = [@ EXCEPT !.lastAuth = ans]]
    /\ UNCHANGED <<now, maxRetries, tokenCacheTtlMs, tokenCalls, started, q, served, cr>>

\* authenticate() has returned; lines 132-146 issue the resource call.
Send(o) ==
    /\ op[o].pc = "ready"
    /\ op' = [op EXCEPT ![o] = [@ EXCEPT !.pc = "fetch"]]
    /\ obs' = [obs EXCEPT ![o] = [@ EXCEPT !.calls = @ + 1, !.sent = WireRequest(op[o])]]
    /\ q' = IF o = 1 /\ q.pc \in {"first", "next"} THEN [q EXCEPT !.calls = @ + 1] ELSE q
    /\ UNCHANGED <<now, maxRetries, tokenCacheTtlMs, tokenCache, tokenCalls, started, served, cr>>

\* The resource endpoint answers with status st (and body b, when st is
\* 200); lines 147-189 run.
Respond(o, st, b) ==
    /\ op[o].pc = "fetch"
    /\ LET f == op[o]
           ob == Finished(obs[o], st) IN
       CASE st = 401 ->
              LET cleared == CacheAfter401(tokenCache, f.tok)
                  ob401 == [ob EXCEPT !.on401 = SlotAt401(tokenCache, f.tok)] IN
              /\ tokenCache' = cleared
              /\ IF f.retries > 0
                 THEN LET a == NewAttempt(f, ob401, NextBudget(f.retries), cleared) IN
                      /\ op' = [op EXCEPT ![o] = a.op]
                      /\ obs' = [obs EXCEPT ![o] = a.obs]
                      /\ tokenCalls' = a.tokenCalls
                 ELSE /\ op' = [op EXCEPT ![o] = Fail(f, "AuthenticationError", 155)]
                      /\ obs' = [obs EXCEPT ![o] = ob401]
                      /\ UNCHANGED tokenCalls
              /\ UNCHANGED served
         [] st # 401 /\ (IsRateLimited(st) \/ IsServerError(st)) /\ f.retries > 0 ->
              /\ op' = [op EXCEPT ![o] = StartBackoff(f)]
              /\ obs' = [obs EXCEPT ![o] = [ob EXCEPT !.waits = Append(@, BackoffDelay(f.retries))]]
              /\ UNCHANGED <<tokenCache, tokenCalls, served>>
         [] OTHER ->
              /\ op' = [op EXCEPT ![o] =
                    IF ~ResponseOk(st) THEN OnErrorBody(f, st, b.text)
                    ELSE Return(f, IF st = 204 THEN EmptyBody ELSE b)]
              /\ obs' = [obs EXCEPT ![o] = ob]
              /\ served' = IF ResponseOk(st) /\ b.kind = "page" THEN Append(served, b) ELSE served
              /\ UNCHANGED <<tokenCache, tokenCalls>>
    /\ UNCHANGED <<now, maxRetries, tokenCacheTtlMs, started, q, cr>>

\* The bodies the server may send slot o with status st: none with a 204, a
\* content with another success, an error text with a non-2xx.
Answers(o, st) ==
    IF st = 204 THEN {NoBody}
    ELSE IF ResponseOk(st) THEN Bodies(BuildUrl(op[o].tok.instanceUrl, op[o].endpoint))
    ELSE {[kind |-> "error", text |-> t] : t \in ErrorTexts}

\* The answers of a server that has one error text: the specifications that
\* do not look at the message of the error draw the bodies from here.
AnswersOneText(o, st) == {b \in Answers(o, st) : b.kind = "error" => b.text = 1}

\* The timer of line 135 aborts the pending fetch; lines 190-200 run.
Timeout(o) ==
    /\ op[o].pc = "fetch"
    /\ LET f == op[o]
           ob == Finished(obs[o], TimedOut) IN
       IF f.retries > 0
       THEN /\ op' = [op EXCEPT ![o] = StartBackoff(f)]
            /\ obs' = [obs EXCEPT ![o] = [ob EXCEPT !.waits = Append(@, BackoffDelay(f.retries))]]
       ELSE /\ op' = [op EXCEPT ![o] = Fail(f, "TimeoutError", 199)]
            /\ obs' = [obs EXCEPT ![o] = ob]
    /\ UNCHANGED <<now, maxRetries, tokenCacheTtlMs, tokenCache, tokenCalls, started, q, served, cr>>

\* The backoff timer fires; lines 162, 169, 197 call request() again.
Wake(o) ==
    /\ op[o].pc = "backoff"
    /\ now >= op[o].wakeAt \/ now >= Horizon
    /\ LET a == NewAttempt(op[o], obs[o], NextBudget(op[o].retries), tokenCache) IN
        /\ op' = [op EXCEPT ![o] = a.op]
        /\ obs' = [obs EXCEPT ![o] = a.obs]
        /\ tokenCalls' = a.tokenCalls
    /\ UNCHANGED <<now, maxRetries, tokenCacheTtlMs, tokenCache, started, q, served, cr>>

\* Lines 120-122.
clearTokenCache ==
    /\ tokenCache' = ClearedCache
    /\ UNCHANGED <<now, maxRetries, tokenCacheTtlMs, tokenCalls, started, op, obs, q, served, cr>>

\* Time passes.
Tick ==
    /\ now < Horizon
    /\ now' = now + BackoffBaseMs
    /\ UNCHANGED <<maxRetries, tokenCacheTtlMs, tokenCache, tokenCalls, started, op, obs, q, served, cr>>

\* --- query() (lines 211-233), on the first slot.

\* Faults of line 220: the done flag is not looked at; the fetchAll flag is
\* not looked at.
FirstNextUrlIgnoringDone(fetchAll, result) ==
    IF fetchAll /\ result.nextRecordsUrl # NoUrl THEN result.nextRecordsUrl ELSE NoUrl
FirstNextUrlIgnoringFlag(fetchAll, result) ==
    IF ~result.done /\ result.nextRecordsUrl # NoUrl THEN result.nextRecordsUrl ELSE NoUrl

\* Line 220: the continuation reference the loop starts with, if any.
FirstNextUrl(fetchAll, result) ==
    IF fetchAll /\ ~result.done /\ result.nextRecordsUrl # NoUrl
    THEN result.nextRecordsUrl
    ELSE NoUrl

\* Line 228.
LoopNextUrl(result) == IF result.done THEN NoUrl ELSE result.nextRecordsUrl

\* A fault of line 227: the new page is put in front.
ConcatFront(records, result) == result.records \o records

\* Line 227.
Concat(records, result) == records \o result.records

\* A caller invokes query(soql, fetchAll); lines 212-215 run.
QueryStart(fetchAll) ==
    /\ q.pc = "none"
    /\ op[1].pc = "idle"
    /\ q' = [NoQuery EXCEPT !.pc = "first", !.fetchAll = fetchAll, !.requests = 1]
    /\ CallRequest(1, QueryEndpoint)
    /\ UNCHANGED <<now, maxRetries, tokenCacheTtlMs, tokenCache, started, served, cr>>

\* request() has returned a page to query(): lines 216-232 run, up to the
\* next call of request() or to the return.
QueryResume ==
    /\ q.pc \in {"first", "next"}
    /\ op[1].pc = "done"
    /\ LET r == op[1].result IN
       IF r.kind # "page"
       THEN \* SalesforceQueryResponseSchema.parse throws (lines 216, 226)
            /\ q' = [q EXCEPT !.pc = "failed", !.err = "ZodError"]
            /\ UNCHANGED <<op, obs, tokenCalls>>
       ELSE LET recs == IF q.pc = "first" THEN r.records ELSE Concat(q.records, r)
                nextUrl == IF q.pc = "first" THEN FirstNextUrl(q.fetchAll, r)
                           ELSE LoopNextUrl(r) IN
            IF nextUrl # NoUrl
            THEN /\ q' = [q EXCEPT !.pc = "next", !.records = recs,
                                   !.nextUrl = nextUrl, !.requests = @ + 1]
                 /\ CallRequest(1, StripApiPrefix(nextUrl))
            ELSE /\ q' = [q EXCEPT !.pc = "done", !.records = recs, !.nextUrl = NoUrl]
                 /\ UNCHANGED <<op, obs, tokenCalls>>
    /\ UNCHANGED <<now, maxRetries, tokenCacheTtlMs, tokenCache, started, served, cr>>

\* A fault of the loop: the failure of a page is swallowed and the pages
\* fetched so far are returned.
QuerySwallow ==
    /\ q.pc \in {"first", "next"}
    /\ op[1].pc = "failed"
    /\ q' = [q EXCEPT !.pc = "done"]
    /\ UNCHANGED <<now, maxRetries, tokenCacheTtlMs, tokenCache, tokenCalls, started,
                   op, obs, served, cr>>

\* request() has thrown: the await of line 213 or 223 rethrows.
QueryFail ==
    /\ q.pc \in {"first", "next"}
    /\ op[1].pc = "failed"
    /\ q' = [q EXCEPT !.pc = "failed", !.err = op[1].err]
    /\ UNCHANGED <<now, maxRetries, tokenCacheTtlMs, tokenCache, tokenCalls, started,
                   op, obs, served, cr>>

\* --- createRecord() (lines 255-267), on the first slot.

\* The fields of SalesforceCreateResponseSchema (types.ts lines 25-29).
CreateResponseKeys == {"id", "success", "errors"}

\* The schema accepts the object: every declared field is there.
MatchesCreateSchema(v) == CreateResponseKeys \subseteq DOMAIN v

\* z.object(...).parse: the result has the declared fields with the values
\* of the input; a field the schema does not declare is stripped.
ParseCreate(v) == [k \in CreateResponseKeys |-> v[k]]

\* A caller invokes createRecord(sobject, data); lines 259-265 run.
CreateStart(data) ==
    /\ cr.pc = "none"
    /\ q.pc = "none"
    /\ op[1].pc = "idle"
    /\ cr' = [NoCreate EXCEPT !.pc = "called", !.data = data]
    /\ CallRequestWith(1, CreateEndpoint, CreateOptions(data))
    /\ UNCHANGED <<now, maxRetries, tokenCacheTtlMs, tokenCache, started, q, served>>

\* request() has returned the response to createRecord(): line 266 runs.
CreateResume ==
    /\ cr.pc = "called"
    /\ op[1].pc = "done"
    /\ LET r == op[1].result IN
       cr' = IF r.kind = "object" /\ MatchesCreateSchema(r.value)
             THEN [cr EXCEPT !.pc = "done", !.result = ParseCreate(r.value)]
             ELSE [cr EXCEPT !.pc = "failed", !.err = "ZodError"]
    /\ UNCHANGED <<now, maxRetries, tokenCacheTtlMs, tokenCache, tokenCalls, started,
                   op, obs, q, served>>

\* request() has thrown: the await of line 259 rethrows.
CreateFail ==
    /\ cr.pc = "called"
    /\ op[1].pc = "failed"
    /\ cr' = [cr EXCEPT !.pc = "failed", !.err = op[1].err]
    /\ UNCHANGED <<now, maxRetries, tokenCacheTtlMs, tokenCache, tokenCalls, started,
                   op, obs, q, served>>

Next ==
    \/ \E o \in Single : Start(o)
    \/ \E o \in Single, ans \in TokenAnswers : TokenRespond(o, ans)
    \/ \E o \in Single : Send(o)
    \/ \E o \in Single, st \in Statuses : \E b \in AnswersOneText(o, st) : Respond(o, st, b)
    \/ \E o \in Single : Timeout(o)
    \/ \E o \in Single : Wake(o)
    \/ clearTokenCache
    \/ Tick

\* One caller with a single logical thread of control.
Spec == Init /\ [][Next]_vars

\* What the code's scheduling guarantees: every pending network call is
\* answered or aborted by its timer, every continuation that is ready runs,
\* every timer fires, and time does not stop while a timer is pending.
Fairness ==
    /\ \A o \in Single : WF_vars(\E ans \in TokenAnswers : TokenRespond(o, ans))
    /\ \A o \in Single : WF_vars(Send(o))
    /\ \A o \in Single : WF_vars((\E st \in Statuses : \E b \in AnswersOneText(o, st) : Respond(o, st, b))
                                     \/ Timeout(o))
    /\ \A o \in Single : WF_vars(Wake(o))
    /\ WF_vars(Tick)

FairSpec == Spec /\ Fairness

\* A client that runs one query().  Time is not resolved in this
\* specification: the clock stands at the horizon from the construction on, so
\* a token does not expire during the query and a backoff ends at any moment.
InitQuery ==
    /\ now = Horizon
    /\ maxRetries \in 0..QueryRetriesBound
    /\ tokenCacheTtlMs = TtlTicks * BackoffBaseMs
    /\ tokenCache = NoToken
    /\ tokenCalls = 0
    /\ started = 0
    /\ op = [o \in Ops |-> IdleFrame]
    /\ obs = [o \in Ops |-> NoObs]
    /\ q = NoQuery
    /\ served = << >>
    /\ cr = NoCreate

NextQuery ==
    \/ \E fetchAll \in BOOLEAN : QueryStart(fetchAll)
    \/ QueryResume
    \/ QueryFail
    \/ \E ans \in TokenAnswers : TokenRespond(1, ans)
    \/ Send(1)
    \/ \E st \in Statuses : \E b \in AnswersOneText(1, st) : Respond(1, st, b)
    \/ Timeout(1)
    \/ Wake(1)

SpecQuery == InitQuery /\ [][NextQuery]_vars

\* A client that runs one createRecord(); as in SpecQuery time is not
\* resolved.  A create is answered 201 by the server; the code makes no
\* difference between the 2xx statuses other than 204.  The server sends
\* every error text.
CreateStatuses == Statuses \cup {201}

InitCreate ==
    /\ now = Horizon
    /\ maxRetries \in 0..MaxRetriesBound
    /\ tokenCacheTtlMs = TtlTicks * BackoffBaseMs
    /\ tokenCache = NoToken
    /\ tokenCalls = 0
    /\ started = 0
    /\ op = [o \in Ops |-> IdleFrame]
    /\ obs = [o \in Ops |-> NoObs]
    /\ q = NoQuery
    /\ served = << >>
    /\ cr = NoCreate

NextCreate ==
    \/ \E data \in CreateData : CreateStart(data)
    \/ CreateResume
    \/ CreateFail
    \/ \E ans \in TokenAnswers : TokenRespond(1, ans)
    \/ Send(1)
    \/ \E st \in CreateStatuses : \E b \in Answers(1, st) : Respond(1, st, b)
    \/ Timeout(1)
    \/ Wake(1)

SpecCreate == InitCreate /\ [][NextCreate]_vars

\* Callers that issue concurrent operations on one client (spec.md section
\* 5): every slot runs operations, and the steps of the slots interleave at
\* the awaits.  Time is not resolved (see SpecQuery): a token leaves the slot
\* by a 401 or a clearTokenCache().  The server answers with a success, a 401
\* or a status that is not retried; the attempts that are retried after a
\* backoff are those that time out.
ConcStatuses == {200, 400, 401}

InitConc ==
    /\ now = Horizon
    /\ maxRetries \in 0..ConcRetriesBound
    /\ tokenCacheTtlMs = TtlTicks * BackoffBaseMs
    /\ tokenCache = NoToken
    /\ tokenCalls = 0
    /\ started = 0
    /\ op = [o \in Ops |-> IdleFrame]
    /\ obs = [o \in Ops |-> NoObs]
    /\ q = NoQuery
    /\ served = << >>
    /\ cr = NoCreate

NextConc ==
    \/ \E o \in Ops : Start(o)
    \/ \E o \in Ops, ans \in TokenAnswers : TokenRespond(o, ans)
    \/ \E o \in Ops : Send(o)
    \/ \E o \in Ops, st \in ConcStatuses : \E b \in AnswersOneText(o, st) : Respond(o, st, b)
    \/ \E o \in Ops : Timeout(o)
    \/ \E o \in Ops : Wake(o)
    \/ clearTokenCache

SpecConc == InitConc /\ [][NextConc]_vars

\* ------------------------------------------------------------ claims

\* In this step slot o calls request() from outside a response handler (a
\* caller's call, or the retry after a backoff): its authenticate() reads
\* the cache slot of the state the step starts in.
CallsRequest(o) ==
    /\ op[o].pc \in {"idle", "done", "failed", "backoff"}
    /\ op'[o].pc \in {"auth", "ready"}

\* In this step the resource call of slot o ends with status st (TimedOut:
\* the fetch was aborted).
AttemptEnds(o, st) ==
    /\ op[o].pc = "fetch"
    /\ op'[o].pc # "fetch"
    /\ obs'[o].last = st

\* C1: whenever authenticate() runs while the slot holds a token and the time
\* is strictly before its expiresAt, it returns that token and base URL, makes
\* no call to the token endpoint and leaves the slot unchanged.
C1_CacheHit ==
    [][\A o \in Ops :
        (CallsRequest(o) /\ tokenCache # NoToken /\ now < tokenCache.expiresAt)
        => /\ op'[o].pc = "ready"
           /\ op'[o].tok = [accessToken |-> tokenCache.accessToken,
                            instanceUrl |-> tokenCache.instanceUrl]
           /\ tokenCalls' = tokenCalls
           /\ tokenCache' = tokenCache]_vars

C1_Witness ==
    \E o \in Ops : op[o].pc = "ready" /\ obs[o].seen = "valid" /\ op[o].tok.accessToken >= 1

\* C2: a 401 on a resource call empties the cache slot in the same step,
\* before the retry starts (budget > 0; the retry finds the slot empty and
\* calls the token endpoint) and before the operation fails (budget 0).
C2_ClearOn401 ==
    [][\A o \in Ops :
        AttemptEnds(o, 401)
        => /\ tokenCache' = NoToken
           /\ IF op[o].retries > 0
              THEN /\ op'[o].pc = "auth"
                   /\ obs'[o].seen = "empty"
                   /\ op'[o].retries = op[o].retries - 1
                   /\ tokenCalls' = tokenCalls + 1
              ELSE /\ op'[o].pc = "failed"
                   /\ tokenCalls' = tokenCalls]_vars

C2_Witness ==
    \E o \in Ops : /\ op[o].pc = "auth" /\ obs[o].last = 401 /\ obs[o].attempts >= 2
                   /\ tokenCache = NoToken /\ tokenCalls >= 2

\* The outcomes of an attempt that request() retries.
Transient(st) == st \in {401, 429, TimedOut} \/ st >= 500

\* The operation failed at the end of a resource call (not in the token
\* exchange).
FailedAfterCall(o) ==
    op[o].pc = "failed" /\ obs[o].lastAuth \notin {"http_error", "malformed"}

C3_Budget ==
    \A o \in Ops :
        /\ obs[o].calls <= maxRetries + 1
        /\ InFlight(o) => op[o].retries = maxRetries - (obs[o].attempts - 1)
        /\ (FailedAfterCall(o) /\ Transient(obs[o].last))
           => obs[o].calls = maxRetries + 1 /\ op[o].retries = 0

\* C3: one operation with budget R = maxRetries issues at most R + 1 resource
\* calls, every failed attempt (a timed-out one too) consumes exactly one unit
\* of budget, the operation fails after exactly R + 1 calls when every attempt
\* ends in a transient failure, and, every network call being answered or
\* timing out, the operation eventually finishes.
C3_RetryBound ==
    /\ []C3_Budget
    /\ \A o \in Single : InFlight(o) ~> ~InFlight(o)

C3_Witness ==
    \E o \in Ops : /\ FailedAfterCall(o) /\ obs[o].last = TimedOut
                   /\ maxRetries = 3 /\ obs[o].calls = 4 /\ Len(obs[o].waits) = 2

\* C4: with budget 3 and 429 on every attempt the operation waits 1000 ms,
\* 2000 ms and 4000 ms between its four resource calls, in that order, and
\* then fails with no further wait or call.
C4_Delays ==
    \A o \in Ops :
        (maxRetries = 3 /\ obs[o].only429)
        => /\ Len(obs[o].waits) <= 3
           /\ obs[o].waits = SubSeq(<<1000, 2000, 4000>>, 1, Len(obs[o].waits))
           /\ op[o].pc = "backoff" => Len(obs[o].waits) = obs[o].calls
           /\ op[o].pc = "fetch" => Len(obs[o].waits) = obs[o].calls - 1
           /\ (FailedAfterCall(o) /\ obs[o].last = 429)
              => obs[o].waits = <<1000, 2000, 4000>> /\ obs[o].calls = 4

C4_Witness ==
    \E o \in Ops : /\ maxRetries = 3 /\ obs[o].only429 /\ FailedAfterCall(o)
                   /\ obs[o].last = 429 /\ obs[o].calls = 4

\* C5: (single logical thread) an attempt that starts while the slot is empty
\* or holds an expired token makes exactly one token-endpoint call before its
\* resource call, and the resource call carries the token of that call.
C5_OneExchange ==
    \A o \in Ops :
        (op[o].pc = "fetch" /\ obs[o].seen \in {"empty", "expired"})
        => /\ op[o].pending >= 1
           /\ tokenCalls = op[o].pending
           /\ op[o].tok = [accessToken |-> op[o].pending, instanceUrl |-> op[o].pending]

C5_Witness ==
    \E o \in Ops : /\ op[o].pc = "fetch" /\ obs[o].seen = "expired"
                   /\ op[o].tok.accessToken = 2

\* A non-2xx status other than 401, 429 and >= 500.
OtherNon2xx(st) == st >= 300 /\ st < 500 /\ st \notin {401, 429}

\* C6: a non-2xx status other than 401, 429 and >= 500 is never retried,
\* whatever budget remains: the operation fails with ApiError at once, with
\* no backoff wait, no further call and the cache slot unchanged.
C6_NoRetry ==
    [][\A o \in Ops :
        (\E st \in Statuses : OtherNon2xx(st) /\ AttemptEnds(o, st))
        => /\ op'[o].pc = "failed"
           /\ op'[o].err = "ApiError"
           /\ tokenCache' = tokenCache
           /\ tokenCalls' = tokenCalls
           /\ obs'[o].waits = obs[o].waits
           /\ obs'[o].calls = obs[o].calls
           /\ obs'[o].attempts = obs[o].attempts]_vars

C6_Witness ==
    \E o \in Ops : /\ op[o].pc = "failed" /\ obs[o].last = 400 /\ op[o].retries = 3
                   /\ op[o].err = "ApiError" /\ tokenCache # NoToken

\* The error class that spec.md section 7 gives the exhaustion of the budget
\* by a failure of each transient kind.
ClassOf(st) ==
    CASE st = 401 -> "AuthenticationError"
      [] st = 429 -> "RateLimitError"
      [] st = TimedOut -> "TimeoutError"
      [] OTHER -> "ServerError"

\* C7: when the budget is exhausted the error is of the class of the last
\* failure (401: AuthenticationError, 429: RateLimitError, >= 500:
\* ServerError, timeout: TimeoutError), and it does not come from the generic
\* non-2xx path (the throw of line 181).
C7_ErrorClass ==
    \A o \in Ops :
        (FailedAfterCall(o) /\ Transient(obs[o].last))
        => op[o].err = ClassOf(obs[o].last) /\ op[o].site # 181

\* C8: a non-success answer of the token endpoint makes the operation fail
\* with AuthenticationError at once: the cache slot keeps its value, no
\* resource call is issued, no backoff is waited and nothing is retried,
\* whatever budget remains.
C8_AuthFailure ==
    [][\A o \in Ops :
        (op[o].pc = "auth" /\ op'[o] # op[o] /\ obs'[o].lastAuth = "http_error")
        => /\ op'[o].pc = "failed"
           /\ op'[o].err = "AuthenticationError"
           /\ op'[o].retries = op[o].retries
           /\ tokenCache' = tokenCache
           /\ tokenCalls' = tokenCalls
           /\ obs'[o].calls = obs[o].calls
           /\ obs'[o].waits = obs[o].waits
           /\ obs'[o].attempts = obs[o].attempts]_vars

C8_Witness ==
    \E o \in Ops : /\ op[o].pc = "failed" /\ obs[o].lastAuth = "http_error"
                   /\ op[o].retries >= 1 /\ obs[o].seen = "expired"
                   /\ tokenCache # NoToken

\* C9: every attempt, the first and every retry, carries a token that
\* authenticate() resolved: either the cached one, read while now < expiresAt,
\* or the one the token endpoint has just returned to this attempt.
C9_FreshToken ==
    \A o \in Ops :
        op[o].pc \in {"ready", "fetch"}
        => IF op[o].pending = 0
           THEN obs[o].seen = "valid" /\ op[o].tok.accessToken >= 1
           ELSE /\ obs[o].lastAuth = "ok"
                /\ op[o].tok = [accessToken |-> op[o].pending,
                                instanceUrl |-> op[o].pending]

C9_Witness ==
    \E o \in Ops : /\ op[o].pc = "fetch" /\ obs[o].attempts >= 2
                   /\ obs[o].waits # << >> /\ obs[o].seen = "expired"
                   /\ op[o].tok.accessToken = op[o].pending

\* A page that ends the result set: it reports done, or it gives no
\* continuation reference.
LastPage(page) == page.done \/ page.nextRecordsUrl = NoUrl

RECURSIVE AllRecords(_)
AllRecords(pages) ==
    IF pages = << >> THEN << >>
    ELSE AllRecords(SubSeq(pages, 1, Len(pages) - 1)) \o pages[Len(pages)].records

RECURSIVE TotalLen(_)
TotalLen(pages) ==
    IF pages = << >> THEN 0 ELSE Len(Head(pages).records) + TotalLen(Tail(pages))

\* C10: query(soql, fetchAll = true) over a result set of N pages (pages
\* 1..N-1 not done and with a continuation reference, page N done or without
\* one) issues exactly N page requests, all successful, and returns the
\* records of pages 1..N in that order, nothing removed: its length is the
\* sum of the page lengths.
C10_AllPages ==
    (q.pc = "done" /\ q.fetchAll)
    => /\ served # << >>
       /\ LastPage(served[Len(served)])
       /\ \A k \in 1..(Len(served) - 1) : ~LastPage(served[k])
       /\ \A k \in 1..Len(served) :
             served[k].records = [j \in 1..Len(served[k].records) |-> RecordAt(k, j)]
       /\ q.requests = Len(served)
       /\ q.records = AllRecords(served)
       /\ Len(q.records) = TotalLen(served)

C10_Witness ==
    /\ q.pc = "done" /\ q.fetchAll /\ Len(served) = 3
    /\ Len(served[1].records) = 2 /\ Len(served[2].records) = 0
    /\ Len(served[3].records) = 2 /\ served[3].done

\* In this step query() takes the first page from request().
TakesFirstPage ==
    /\ q.pc = "first" /\ op[1].pc = "done" /\ op[1].result.kind = "page"
    /\ q' # q

\* C11: when the first page of a query reports done = true, query() returns
\* the records of that page in the step that takes the page and calls
\* request() no further: one page request in all, also when the page carries
\* a continuation reference and whatever the fetchAll flag; nothing runs on
\* the client for the query after that.
C11_FirstPageDone ==
    /\ [][(TakesFirstPage /\ op[1].result.done)
          => /\ q'.pc = "done"
             /\ q'.records = op[1].result.records
             /\ q'.requests = 1
             /\ op' = op /\ obs' = obs /\ tokenCalls' = tokenCalls]_vars
    /\ []((q.pc = "done" /\ served[1].done)
          => /\ ~InFlight(1) /\ Len(served) = 1
             /\ q.requests = 1 /\ obs[1].attempts = obs[1].calls
             /\ q.records = served[1].records)

C11_Witness ==
    /\ q.pc = "done" /\ q.fetchAll /\ Len(served) = 1 /\ served[1].done
    /\ served[1].nextRecordsUrl # NoUrl /\ Len(q.records) = 2


\* C12: query(soql, fetchAll = false) hands exactly one page request to
\* request() and returns the records of the first page as they came, also
\* when that page reports done = false and gives a continuation reference.
C12_FirstPageOnly ==
    /\ [][(TakesFirstPage /\ ~q.fetchAll)
          => /\ q'.pc = "done"
             /\ q'.records = op[1].result.records
             /\ q'.requests = 1
             /\ op' = op /\ obs' = obs /\ tokenCalls' = tokenCalls]_vars
    /\ [](~q.fetchAll
          => /\ q.pc # "next"
             /\ q.requests <= 1
             /\ q.pc = "done"
                => /\ Len(served) = 1 /\ ~InFlight(1)
                   /\ q.records = served[1].records
                   /\ q.records = [j \in 1..Len(q.records) |-> RecordAt(1, j)])

C12_Witness ==
    /\ q.pc = "done" /\ ~q.fetchAll /\ q.requests = 1
    /\ ~served[1].done /\ served[1].nextRecordsUrl # NoUrl /\ Len(q.records) = 2


\* The pair n of one token response: its access token and its base URL.
FromOneResponse(tok) ==
    tok.accessToken = tok.instanceUrl /\ tok.accessToken \in 1..tokenCalls

\* C13: under every interleaving of concurrent operations the cache slot is
\* empty or holds the complete triple one successful token exchange wrote
\* (access token and base URL of that one response, expiry from the instant
\* of the write): a step changes the slot only by emptying it or by writing
\* the three fields together.  Every resource call carries an access token
\* and a base URL of one and the same token response.
C13_AtomicSlot ==
    /\ [](/\ tokenCache # NoToken
             => FromOneResponse(tokenCache) /\ tokenCache.expiresAt >= tokenCacheTtlMs
          /\ \A o \in Ops : op[o].pc \in {"ready", "fetch"} => FromOneResponse(op[o].tok))
    /\ [][tokenCache' # tokenCache
          => \/ tokenCache' = NoToken
             \/ \E o \in Ops :
                  /\ op[o].pc = "auth" /\ op'[o].pc = "ready"
                  /\ tokenCache' = [accessToken |-> op[o].pending,
                                    instanceUrl |-> op[o].pending,
                                    expiresAt |-> now + tokenCacheTtlMs]
                  /\ op'[o].tok = [accessToken |-> op[o].pending,
                                   instanceUrl |-> op[o].pending]]_vars

\* Two operations raced to the token endpoint: the second response has
\* replaced the first in the slot while the first is still in use.
C13_Witness ==
    \E o1, o2 \in Ops :
        /\ o1 # o2 /\ op[o1].pc = "fetch" /\ op[o2].pc = "fetch"
        /\ obs[o1].attempts = 1 /\ obs[o2].attempts = 1
        /\ op[o1].tok.accessToken = 1 /\ op[o2].tok.accessToken = 2
        /\ tokenCache # NoToken /\ tokenCache.accessToken = 2


\* C14: clearTokenCache() can be called in every state, also while a request
\* is in flight, and never fails; the call leaves the slot empty and changes
\* nothing else, so a call on an empty slot changes nothing at all.  The
\* slot leaves the empty state only by a token exchange, and an attempt whose
\* authenticate() finds the slot empty performs a token exchange.
C14_ClearIdempotent ==
    /\ [](/\ ENABLED clearTokenCache
          /\ tokenCache = NoToken => ~ENABLED <<clearTokenCache>>_vars)
    /\ [][/\ clearTokenCache
             => /\ tokenCache' = NoToken
                /\ UNCHANGED <<now, maxRetries, tokenCacheTtlMs, tokenCalls, started,
                               op, obs, q, served, cr>>
          /\ (tokenCache = NoToken /\ tokenCache' # NoToken)
             => \E o \in Ops : /\ op[o].pc = "auth" /\ op'[o].pc = "ready"
                               /\ op[o].pending >= 1
                               /\ tokenCache'.accessToken = op[o].pending
          /\ \A o \in Ops :
               (CallsRequest(o) /\ tokenCache = NoToken)
               => /\ op'[o].pc = "auth"
                  /\ op'[o].pending = tokenCalls + 1
                  /\ tokenCalls' = tokenCalls + 1]_vars

\* The slot was cleared while the operation waited for its backoff, before
\* the token of the first attempt expired: the retry exchanges again.
C14_Witness ==
    \E o \in Ops :
        /\ op[o].pc = "auth" /\ obs[o].attempts = 2 /\ obs[o].last = 429
        /\ obs[o].waits = <<1000>> /\ obs[o].seen = "empty"
        /\ now = 1000 /\ tokenCalls = 2 /\ started = 1


\* The response the server sent the create with (the result of request()).
CreateResponse == op[1].result.value

\* C15: createRecord returns an object with exactly the fields id and
\* success of the server's create response: for a response {id, success,
\* errors} the errors field is not part of the returned object.
C15_TwoFields ==
    cr.pc = "done"
    => /\ DOMAIN cr.result = {"id", "success"}
       /\ cr.result.id = CreateResponse.id
       /\ cr.result.success = CreateResponse.success


\* The operation of slot o failed at the end of an attempt that the server
\* answered with a non-2xx status.
FailedOnStatus(o) ==
    FailedAfterCall(o) /\ obs[o].last >= 300

\* The error text is a well-formed structured error list.
WellFormed(text) == JsonParse(text).ok /\ MatchesErrorSchema(JsonParse(text))

\* The error of slot o is an ApiError whose message is built from the
\* messages of a well-formed error list, or carries the status and the raw
\* text of a body that is not JSON or not an error list.
ApiErrorOfBody(o) ==
    /\ op[o].err = "ApiError"
    /\ op[o].site = 181
    /\ IF op[o].msg.status = 0
       THEN \E t \in ErrorTexts :
              /\ WellFormed(t)
              /\ Len(op[o].msg.messages) = Len(JsonParse(t).items)
              /\ \A i \in 1..Len(op[o].msg.messages) :
                    op[o].msg.messages[i] = JsonParse(t).items[i].message.s
       ELSE /\ op[o].msg.status = obs[o].last
            /\ op[o].msg.text \in ErrorTexts
            /\ ~WellFormed(op[o].msg.text)
            /\ op[o].msg.messages = << >>

\* C16, as stated: a non-2xx response that is not retried always ends the
\* operation in ApiError, with the message built from the listed messages or
\* carrying the raw body text.
C16_AlwaysApiError ==
    \A o \in Ops : FailedOnStatus(o) => ApiErrorOfBody(o)

\* C16, amended: a non-2xx response other than 401 that is not retried (a
\* status outside 401, 429 and >= 500 whatever the budget; 429 and >= 500
\* with no budget left) ends the operation in ApiError, with the message
\* built from the listed messages of a well-formed error list and carrying
\* the raw body text otherwise; what JSON.parse or the schema throws never
\* ends the operation.  A 401 with no budget left is not of this kind.
C16_ApiErrorBut401 ==
    \A o \in Ops : (FailedOnStatus(o) /\ obs[o].last # 401) => ApiErrorOfBody(o)

C16_Witness ==
    \E o \in Ops : /\ FailedOnStatus(o) /\ obs[o].last = 400 /\ op[o].err = "ApiError"
                   /\ op[o].msg.status = 400 /\ op[o].msg.text = 6


\* request() has thrown to a running query().
PageFailed == q.pc \in {"first", "next"} /\ op[1].pc = "failed"

\* C17: query() hands each page request to request() exactly once (the
\* requests it has made are the pages it was served, plus the one in progress
\* or the one that failed) and retries nothing itself: when request() fails
\* for a page, the first or a later one, the only step query() takes is to
\* fail with that error; it calls request() no more, fetches no further page
\* and returns no record set, and nothing runs for the query afterwards.
C17_QueryFailsAtOnce ==
    /\ [](/\ (q.pc \in {"first", "next"} /\ op[1].pc # "done")
             => q.requests = Len(served) + 1
          /\ q.pc = "failed" => q.requests = Len(served) + 1
          /\ q.pc = "done" => q.requests = Len(served)
          /\ q.pc = "failed" => ~InFlight(1))
    /\ [][/\ PageFailed
             => /\ q'.pc = "failed"
                /\ q'.err = op[1].err
                /\ q'.requests = q.requests
                /\ op' = op /\ obs' = obs /\ served' = served
                /\ tokenCalls' = tokenCalls /\ tokenCache' = tokenCache
          /\ q.pc # "failed"]_vars

\* The third page of a query failed after its retries, with the records of
\* two pages fetched.
C17_Witness ==
    /\ q.pc = "failed" /\ q.err = "TimeoutError" /\ q.requests = 3
    /\ Len(served) = 2 /\ Len(q.records) = 4
    /\ maxRetries = 2 /\ obs[1].calls = 3


\* The outcomes of an attempt that are retried after a backoff.
WaitsBeforeRetry(st) == st = 429 \/ st >= 500 \/ st = TimedOut

\* C18: for any mix of failures within one operation with initial budget
\* R = maxRetries, an attempt that fails with 429, >= 500 or a timeout while
\* r > 0 budget remains is followed by a wait of exactly 2^(R - r) * 1000 ms,
\* an attempt that fails with 401 is followed by no wait, and no wait precedes
\* the final failure.  So the waits of an operation are strictly increasing,
\* each is 1000 * 2^k ms with 0 <= k < R and k the number of attempts that
\* failed before, and the first wait after an earlier 401 is 2000 ms.
C18_MixedWaits ==
    /\ [](\A o \in Ops :
            LET w == obs[o].waits IN
            /\ \A i \in 1..Len(w) : \E k \in 0..(maxRetries - 1) : w[i] = 1000 * 2 ^ k
            /\ \A i \in 1..(Len(w) - 1) : w[i] < w[i + 1]
            /\ op[o].pc = "backoff"
               => /\ w # << >>
                  /\ w[Len(w)] = 1000 * 2 ^ (obs[o].attempts - 1)
                  /\ op[o].wakeAt <= now + w[Len(w)]
            /\ (op[o].pc = "backoff" /\ obs[o].attempts = 2 /\ Len(w) = 1)
               => w = <<2000>>)
    /\ [][\A o \in Ops :
            /\ \A st \in Statuses \cup {TimedOut} :
                 (AttemptEnds(o, st) /\ WaitsBeforeRetry(st) /\ op[o].retries > 0)
                 => /\ op'[o].pc = "backoff"
                    /\ obs'[o].waits =
                         Append(obs[o].waits, 2 ^ (maxRetries - op[o].retries) * 1000)
                    /\ op'[o].wakeAt = now + 2 ^ (maxRetries - op[o].retries) * 1000
            /\ AttemptEnds(o, 401)
               => obs'[o].waits = obs[o].waits /\ op'[o].pc # "backoff"
            /\ (op[o].pc = "fetch" /\ op'[o].pc = "failed")
               => obs'[o].waits = obs[o].waits
            /\ (op[o].pc = "backoff" /\ op'[o].pc # "backoff")
               => /\ now >= op[o].wakeAt \/ now >= Horizon
                  /\ obs'[o].attempts = obs[o].attempts + 1]_vars

\* A 401, then two failures that wait, then the final failure.
C18_Witness ==
    \E o \in Ops :
        /\ maxRetries = 3 /\ op[o].pc = "failed" /\ obs[o].last = 500
        /\ obs[o].attempts = 4 /\ obs[o].waits = <<2000, 4000>>


\* The attempt slot o is in follows an attempt of the same operation that
\* the server answered 401.
RetryAfter401(o) ==
    /\ op[o].pc \in {"auth", "ready", "fetch"}
    /\ obs[o].attempts >= 2 /\ obs[o].last = 401

\* C19: under every interleaving of concurrent operations, an operation that
\* receives 401 with budget > 0 empties the slot and runs the cache check of
\* its retry in one step, in which no other operation moves: the retry finds
\* the slot empty, makes its own call to the token endpoint and sends its
\* resource call with the token of that call, never with a cached one.  One
\* operation alone, answered 401 then a success, makes exactly two calls to
\* the token endpoint.
C19_RetryRefetches ==
    /\ [][\A o \in Ops :
            (AttemptEnds(o, 401) /\ op[o].retries > 0)
            => /\ tokenCache' = NoToken
               /\ op'[o].pc = "auth"
               /\ obs'[o].seen = "empty"
               /\ op'[o].pending = tokenCalls + 1
               /\ tokenCalls' = tokenCalls + 1
               /\ \A p \in Ops \ {o} : op'[p] = op[p] /\ obs'[p] = obs[p]]_vars
    /\ [](\A o \in Ops :
            /\ RetryAfter401(o)
               => /\ obs[o].seen = "empty"
                  /\ op[o].pending >= 1
                  /\ op[o].pc \in {"ready", "fetch"}
                     => /\ obs[o].lastAuth = "ok"
                        /\ op[o].tok = [accessToken |-> op[o].pending,
                                        instanceUrl |-> op[o].pending]
            /\ (started = 1 /\ op[o].pc = "done" /\ obs[o].attempts = 2
                /\ obs[o].waits = << >>)
               => tokenCalls = 2)

\* The retry after a 401 is on the wire with its own token while another
\* operation is in flight with the token that was in the slot.
C19_Witness ==
    \E o1, o2 \in Ops :
        /\ o1 # o2 /\ RetryAfter401(o1) /\ op[o1].pc = "fetch"
        /\ op[o1].tok.accessToken = 3
        /\ op[o2].pc = "fetch" /\ op[o2].tok.accessToken = 2


\* The resource call of a createRecord(sobject, data), as the first attempt
\* sends it.
CreateCall ==
    [path |-> <<"services", "data", "v61.0", "sobjects">>, cursor |-> 0,
     method |-> "POST", body |-> cr.data]

\* C20: every retry of one logical operation sends the same endpoint, method
\* and body as the first attempt; the frame keeps them through every retry,
\* and only the budget and the token with its base URL change.  A create
\* (POST) whose attempt ends with >= 500 or a timeout while budget remains is
\* therefore sent again, at most maxRetries + 1 times in all.
C20_SameRequest ==
    /\ [](cr.pc = "called"
          => /\ op[1].endpoint = [path |-> <<"sobjects">>, cursor |-> 0]
             /\ op[1].options = [method |-> "POST", body |-> cr.data]
             /\ obs[1].calls <= maxRetries + 1
             /\ obs[1].calls >= 1 => obs[1].sent = CreateCall)
    /\ [][/\ (op[1].pc = "ready" /\ op'[1].pc = "fetch")
             => /\ obs'[1].sent = CreateCall
                /\ obs'[1].calls = obs[1].calls + 1
                /\ obs[1].calls >= 1 => obs'[1].sent = obs[1].sent
          /\ \A st \in CreateStatuses \cup {TimedOut} :
               (AttemptEnds(1, st) /\ (st >= 500 \/ st = TimedOut) /\ op[1].retries > 0)
               => /\ op'[1].pc = "backoff"
                  /\ op'[1].endpoint = op[1].endpoint
                  /\ op'[1].options = op[1].options
                  /\ op'[1].retries = op[1].retries
          /\ (op[1].pc = "backoff" /\ op'[1].pc # "backoff")
             => /\ op'[1].pc \in {"auth", "ready"}
                /\ op'[1].retries = op[1].retries - 1
                /\ op'[1].endpoint = op[1].endpoint
                /\ op'[1].options = op[1].options]_vars

\* A create that was sent four times: three retries after a timeout or a
\* >= 500, the last one answered 500.
C20_Witness ==
    /\ cr.pc = "failed" /\ cr.data = 2 /\ maxRetries = 3
    /\ obs[1].calls = 4 /\ Len(obs[1].waits) = 3 /\ obs[1].last = 500
    /\ obs[1].sent.method = "POST" /\ obs[1].sent.body = 2


\* C21: the invalidation on 401 is unconditional: the step in which an
\* operation handles a 401 leaves the slot empty, also when the slot held a
\* newer token that a concurrent operation stored, and it moves no other
\* operation.  The other operations only exchange again: an operation fails
\* only at the end of its own resource call or on a failed token exchange of
\* its own, a token exchange that succeeds costs no budget, no call and no
\* wait, and the budget of an operation goes down only by one for each of
\* its own failed attempts.
C21_UnconditionalClear ==
    /\ [](\A p \in Ops :
            InFlight(p) => op[p].retries = maxRetries - (obs[p].attempts - 1))
    /\ [][\A o \in Ops :
            /\ AttemptEnds(o, 401)
               => /\ tokenCache' = NoToken
                  /\ \A p \in Ops \ {o} : op'[p] = op[p] /\ obs'[p] = obs[p]
            /\ (op[o].pc # "failed" /\ op'[o].pc = "failed")
               => \/ op[o].pc = "fetch"
                  \/ op[o].pc = "auth" /\ obs'[o].lastAuth # "ok"
            /\ (op[o].pc = "auth" /\ op'[o] # op[o] /\ obs'[o].lastAuth = "ok")
               => /\ op'[o].pc = "ready"
                  /\ op'[o].retries = op[o].retries
                  /\ obs'[o].calls = obs[o].calls
                  /\ obs'[o].waits = obs[o].waits
                  /\ obs'[o].attempts = obs[o].attempts
            /\ (InFlight(o) /\ InFlight(o)' /\ op'[o].retries # op[o].retries)
               => /\ op'[o].retries = op[o].retries - 1
                  /\ obs'[o].attempts = obs[o].attempts + 1
                  /\ \/ op[o].pc = "backoff"
                     \/ op[o].pc = "fetch" /\ obs'[o].last = 401]_vars

\* An operation was answered 401 while the slot held the newer token of a
\* concurrent operation: the slot is empty, and the other operation is on
\* the wire with that token and its full budget.
C21_Witness ==
    \E o, p \in Ops :
        /\ o # p /\ obs[o].last = 401 /\ obs[o].on401 = "newer"
        /\ op[o].pc = "auth" /\ tokenCache = NoToken
        /\ op[p].pc = "fetch" /\ op[p].tok.accessToken = 2
        /\ op[p].retries = maxRetries /\ obs[p].attempts = 1

\* query() calls request() for a page in this step: the first page (line 213)
\* or a following one (line 223).
PageRequested == q'.requests # q.requests

\* C22: each page request of a paginated query starts with the full retry
\* budget maxRetries, whatever the pages before it consumed: its count of
\* resource calls and its waits start from nothing, so a page issues at most
\* maxRetries + 1 resource calls, a query that has requested N pages has issued
\* at most N * (maxRetries + 1) of them, and the wait after the first attempt
\* of every page is 1000 ms.
C22_FullBudgetPerPage ==
    /\ [](/\ obs[1].calls <= maxRetries + 1
          /\ q.calls <= q.requests * (maxRetries + 1)
          /\ q.requests <= MaxPages
          /\ q.pc = "done" => q.requests = Len(served)
          /\ (q.pc \in {"first", "next"} /\ op[1].pc = "backoff" /\ obs[1].attempts = 1)
             => obs[1].waits = <<1000>>)
    /\ [][/\ PageRequested
             => /\ q'.requests = q.requests + 1
                /\ q'.calls = q.calls
                /\ op'[1].retries = maxRetries
                /\ obs'[1].attempts = 1
                /\ obs'[1].calls = 0
                /\ obs'[1].waits = << >>
          /\ (q.pc \in {"first", "next"} /\ ~PageRequested)
             => q'.calls - q.calls = obs'[1].calls - obs[1].calls
          /\ \A st \in Statuses \cup {TimedOut} :
               (/\ q.pc \in {"first", "next"}
                /\ AttemptEnds(1, st) /\ WaitsBeforeRetry(st)
                /\ obs[1].attempts = 1 /\ maxRetries > 0)
               => /\ op'[1].pc = "backoff"
                  /\ obs'[1].waits = <<1000>>]_vars

\* The first page took every call its budget allows; the second page fails
\* once and waits 1000 ms again.
C22_Witness ==
    /\ q.pc = "next" /\ q.requests = 2
    /\ maxRetries = 2
    /\ q.calls = 4
    /\ obs[1].calls = 1
    /\ op[1].pc = "backoff" /\ op[1].retries = maxRetries
    /\ obs[1].waits = <<1000>>

====
